---- MODULE Spec2Model ----
(***************************************************************************)
(* Model of the crypto news aggregation service (src/app.py): the          *)
(* relevance scorer, the four source fetchers and the aggregator that is   *)
(* run by POST /search.                                                    *)
(*                                                                         *)
(* Text is a sequence of one-character strings.  A JSON value that reaches *)
(* the code as a query or as a title is a record [kind, s]: kind "str"     *)
(* with its characters s, kind "none" for null, kind "num" for a non-zero  *)
(* number.  A score is the exact rational [num, den] in lowest terms of    *)
(* the float the code computes.                                            *)
(***************************************************************************)
EXTENDS Integers, Sequences, FiniteSets, TLC

\* ------------------------------------------------------------------ bounds
MaxQueryWords == 2      \* words joined into a query of the scorer run
MaxTextWords == 2       \* words joined into a text of the scorer run
MaxCoins == 4           \* items of a trending response
MaxPosts == 6           \* items of a CryptoPanic response
MaxPrices == 6          \* entries of a price response
MaxArticles == 4        \* items of a NewsAPI response

\* --------------------------------------------------------------- constants
TrendingLimit == 3      \* data.get('coins', [])[:3]
PostLimit == 5          \* data.get('results', [])[:5]
ArticleLimit == 3       \* data.get('articles', [])[:3]
TopN == 10              \* results[:10]
MinWordLen == 3         \* len(w) > 3

\* -------------------------------------------------------------------- text
Str(s) == [kind |-> "str", s |-> s]
None == [kind |-> "none", s |-> <<>>]
Num == [kind |-> "num", s |-> <<>>]

\* str.lower() on one character
LowerChar(c) ==
  CASE c = "A" -> "a"
    [] c = "B" -> "b"
    [] c = "C" -> "c"
    [] c = "D" -> "d"
    [] OTHER -> c

\* a comparison that forgets to lowercase
LowerDropped(s) == s

\* str.lower()
Lower(s) == [i \in 1..Len(s) |-> LowerChar(s[i])]

\* sub in s
Contains(sub, s) ==
  \E i \in 0..(Len(s) - Len(sub)) : SubSeq(s, i + 1, i + Len(sub)) = sub

RECURSIVE SplitFrom(_, _, _)
\* scans s from position i with the current word cur
SplitFrom(s, i, cur) ==
  IF i > Len(s)
  THEN IF cur = <<>> THEN <<>> ELSE <<cur>>
  ELSE IF s[i] = " "
       THEN IF cur = <<>>
            THEN SplitFrom(s, i + 1, <<>>)
            ELSE <<cur>> \o SplitFrom(s, i + 1, <<>>)
       ELSE SplitFrom(s, i + 1, Append(cur, s[i]))

\* str.split(): the maximal runs of non-space characters
Split(s) == SplitFrom(s, 1, <<>>)

\* ------------------------------------------------------------------ scores
RECURSIVE GCD(_, _)
GCD(a, b) == IF b = 0 THEN a ELSE GCD(b, a % b)

Score(n, d) == [num |-> n \div GCD(n, d), den |-> d \div GCD(n, d)]

\* a > b on scores
ScoreGT(a, b) == a.num * b.den > b.num * a.den

Returned(sc) == [raised |-> FALSE, score |-> sc]
Raised == [raised |-> TRUE, score |-> Score(0, 1)]

\* truthiness of a value: '' and None are falsy
Truthy(v) == IF v.kind = "str" THEN v.s # <<>> ELSE v.kind = "num"

RECURSIVE CountMatches(_, _)
\* sum(1 for word in query_words if word in text_lower)
CountMatches(words, text) ==
  IF words = <<>> THEN 0
  ELSE (IF Contains(Head(words), text) THEN 1 ELSE 0)
       + CountMatches(Tail(words), text)

RECURSIVE LongWordsFromThree(_)
\* keeps the words of three characters as well (>= instead of >)
LongWordsFromThree(words) ==
  IF words = <<>> THEN <<>>
  ELSE (IF Len(Head(words)) >= MinWordLen THEN <<Head(words)>> ELSE <<>>)
       \o LongWordsFromThree(Tail(words))

RECURSIVE LongWords(_)
\* [w for w in words if len(w) > 3]
LongWords(words) ==
  IF words = <<>> THEN <<>>
  ELSE (IF Len(Head(words)) > MinWordLen THEN <<Head(words)>> ELSE <<>>)
       \o LongWords(Tail(words))

calculate_relevance_score(query, text) ==
  IF ~Truthy(query) \/ ~Truthy(text)
  THEN Returned(Score(5, 10))
  ELSE IF query.kind # "str" \/ text.kind # "str"
  THEN Raised                       \* .lower() of a number
  ELSE LET query_lower == Lower(query.s)
           text_lower == Lower(text.s)
       IN IF Contains(query_lower, text_lower)
          THEN Returned(Score(95, 100))
          ELSE LET query_words == LongWords(Split(query_lower))
               IN IF query_words = <<>>
                  THEN Returned(Score(5, 10))
                  ELSE LET matches == CountMatches(query_words, text_lower)
                       IN Returned(Score(5 * Len(query_words) + 4 * matches,
                                         10 * Len(query_words)))

\* ---------------------------------------------------------------- fetchers
\* What one outbound call gives back: status "ok" (200 and a JSON object
\* whose list is items), "http_error" (any other status) or "exception"
\* (requests.get or response.json() raises, or the payload is not an object).
\* An item is [dict, title]: dict is FALSE when reading the item raises.
Item(title) == [dict |-> TRUE, title |-> title]
BadItem == [dict |-> FALSE, title |-> None]

\* items[:limit]
Take(s, limit) == SubSeq(s, 1, IF Len(s) < limit THEN Len(s) ELSE limit)

Result(sc, src, idx) == [score |-> sc, src |-> src, idx |-> idx]

\* What a fetcher hands to its caller: the list it returns, whether one of
\* its error branches ran, whether the outbound call was made, and whether
\* an exception left the function.
Outcome(results, failed, called, raised) ==
  [results |-> results, failed |-> failed, called |-> called, raised |-> raised]

RECURSIVE MapItems(_, _, _, _, _)
\* for item in items: results.append({... calculate_relevance_score ...})
\* inside the fetcher's try: an exception ends the loop and keeps results
MapItems(query, items, src, idx, results) ==
  IF items = <<>>
  THEN Outcome(results, FALSE, TRUE, FALSE)
  ELSE LET item == Head(items)
           sc == calculate_relevance_score(query, item.title)
       IN IF ~item.dict \/ sc.raised
          THEN Outcome(results, TRUE, TRUE, FALSE)
          ELSE MapItems(query, Tail(items), src, idx + 1,
                        Append(results, Result(sc.score, src, idx)))

RECURSIVE MapPrices(_, _, _)
\* for coin_id, price_data in data.items(): results.append({score: 0.9 ...})
MapPrices(items, idx, results) ==
  IF items = <<>>
  THEN Outcome(results, FALSE, TRUE, FALSE)
  ELSE IF ~Head(items).dict
       THEN Outcome(results, TRUE, TRUE, FALSE)
       ELSE MapPrices(Tail(items), idx + 1,
                      Append(results, Result(Score(9, 10), "prices", idx)))

fetch_from_coingecko(query, response) ==
  IF response.status # "ok"
  THEN Outcome(<<>>, TRUE, TRUE, FALSE)
  ELSE MapItems(query, Take(response.items, TrendingLimit), "coingecko", 1, <<>>)

\* the CryptoPanic fetcher without its [:5]
fetch_from_cryptopanic_unsliced(query, response) ==
  IF query.kind # "str"
  THEN Outcome(<<>>, TRUE, FALSE, FALSE)
  ELSE IF response.status # "ok"
  THEN Outcome(<<>>, TRUE, TRUE, FALSE)
  ELSE MapItems(query, response.items, "cryptopanic", 1, <<>>)

fetch_from_cryptopanic(query, response) ==
  IF query.kind # "str"
  THEN Outcome(<<>>, TRUE, FALSE, FALSE)    \* query.lower() raises in the try
  ELSE IF response.status # "ok"
  THEN Outcome(<<>>, TRUE, TRUE, FALSE)
  ELSE MapItems(query, Take(response.items, PostLimit), "cryptopanic", 1, <<>>)

fetch_crypto_prices(query, response) ==
  IF query.kind # "str"
  THEN Outcome(<<>>, TRUE, FALSE, TRUE)     \* query.lower() raises before the try
  ELSE IF response.status # "ok"
  THEN Outcome(<<>>, TRUE, TRUE, FALSE)
  ELSE MapPrices(response.items, 1, <<>>)

fetch_from_newsapi(query, response) ==
  IF response.status # "ok"
  THEN Outcome(<<>>, TRUE, TRUE, FALSE)
  ELSE MapItems(query, Take(response.items, ArticleLimit), "newsapi", 1, <<>>)

\* -------------------------------------------------------------- aggregator
RECURSIVE InsertDescUnstable(_, _)
\* puts x before the elements of equal score: ties come out reversed
InsertDescUnstable(s, x) ==
  IF s = <<>> THEN <<x>>
  ELSE IF ~ScoreGT(Head(s).score, x.score)
       THEN <<x>> \o s
       ELSE <<Head(s)>> \o InsertDescUnstable(Tail(s), x)

RECURSIVE InsertDesc(_, _)
\* puts x after every element of the sorted list s whose score is >= x's
InsertDesc(s, x) ==
  IF s = <<>> THEN <<x>>
  ELSE IF ScoreGT(x.score, Head(s).score)
       THEN <<x>> \o s
       ELSE <<Head(s)>> \o InsertDesc(Tail(s), x)

RECURSIVE SortDesc(_, _)
\* results.sort(key=score, reverse=True): stable, equal scores keep their order
SortDesc(todo, sorted) ==
  IF todo = <<>> THEN sorted
  ELSE SortDesc(Tail(todo), InsertDesc(sorted, Head(todo)))

\* the sort without the [:10]
SortWithoutTruncate(results) == SortDesc(results, <<>>)

\* the [:10] without the sort
TruncateWithoutSort(results) == Take(results, TopN)

\* the [:10] taken before the sort
TruncateThenSort(results) == SortDesc(Take(results, TopN), <<>>)

\* results.sort(...); return results[:10]
SortAndTruncate(results) == Take(SortDesc(results, <<>>), TopN)

\* ------------------------------------------------------------------ inputs
T_abcd == <<"a", "b", "c", "d">>
T_Title1 == <<"A", "b", "c", "d", " ", "a", "b">>      \* "Abcd ab"
T_Title2 == <<"d", "c", "b", "a">>                     \* "dcba"

\* the titles providers send in the aggregator runs
Titles == {Str(T_Title1), Str(T_Title2)}

\* the "query" member of the request body (data.get('query', ''))
Queries ==
  { Str(T_abcd),                                       \* 0.95 / 0.5
    Str(<<"a", "b", "c", "d", " ", "b", "a">>),        \* 0.9 / 0.5
    Str(<<"a", "b", "c", "d", " ", "d", "c", "b", "a">>),   \* 0.7 / 0.7
    Str(<<>>), None, Num }

\* item lists of at most max items: one title per response, at most one
\* item that cannot be read
ItemSeqs(max) ==
  { [i \in 1..n |-> IF i = bad THEN BadItem ELSE Item(t)] :
      n \in 0..max, t \in Titles, bad \in 0..max }

Responses(max) ==
  { [status |-> "ok", items |-> s] : s \in ItemSeqs(max) }
  \cup { [status |-> st, items |-> <<>>] : st \in {"http_error", "exception"} }

Sources == <<"coingecko", "cryptopanic", "prices", "newsapi">>

NotRun == Outcome(<<>>, FALSE, FALSE, FALSE)

\* ------------------------------------------------------------------- state
VARIABLES
  pc,               \* where the request is: "idle", a fetcher name, "done", "error"
  query,            \* data.get('query', '')
  CRYPTOPANIC_API_KEY,   \* TRUE when the key is a non-empty string
  NEWSAPI_KEY,
  results,          \* the list fetch_crypto_news builds
  calls,            \* the fetchers invoked so far, in order
  ret,              \* what each fetcher handed back
  output,           \* search_results of the response
  status,           \* HTTP status of the response, 0 before it is sent
  fetchSource, fetchResponse, fetchOutcome, fetchDone,   \* one run of one fetcher
  scoreQuery, scoreText, scoreResult, scoreDone   \* one run of calculate_relevance_score

vars == <<pc, query, CRYPTOPANIC_API_KEY, NEWSAPI_KEY, results, calls, ret,
          output, status, fetchSource, fetchResponse, fetchOutcome, fetchDone,
          scoreQuery, scoreText, scoreResult, scoreDone>>

requestVars == <<pc, results, calls, ret, output, status>>
fetchVars == <<fetchSource, fetchResponse, fetchOutcome, fetchDone>>
scoreVars == <<scoreQuery, scoreText, scoreResult, scoreDone>>
keyVars == <<CRYPTOPANIC_API_KEY, NEWSAPI_KEY>>

SourceSet == {Sources[i] : i \in 1..Len(Sources)}

\* no request received, no fetcher run, no score computed
IdleRequest ==
  /\ pc = "idle"
  /\ results = <<>>
  /\ calls = <<>>
  /\ ret = [s \in SourceSet |-> NotRun]
  /\ output = <<>>
  /\ status = 0

IdleFetch ==
  /\ fetchSource = "coingecko"
  /\ fetchResponse = [status |-> "exception", items |-> <<>>]
  /\ fetchOutcome = NotRun
  /\ fetchDone = FALSE

IdleScore ==
  /\ scoreQuery = None /\ scoreText = None
  /\ scoreResult = Raised /\ scoreDone = FALSE

Init ==
  /\ IdleRequest /\ IdleFetch /\ IdleScore
  /\ query = None
  /\ CRYPTOPANIC_API_KEY \in BOOLEAN
  /\ NEWSAPI_KEY \in BOOLEAN

\* search(): request.get_json(), data.get('query', ''); a body that is not a
\* JSON object raises and is answered 500
Search ==
  /\ pc = "idle"
  /\ \E isObject \in BOOLEAN, q \in Queries :
       IF isObject
       THEN /\ query' = q
            /\ pc' = "coingecko"
            /\ UNCHANGED status
       ELSE /\ query' = None
            /\ pc' = "error"
            /\ status' = 500
  /\ UNCHANGED <<results, calls, ret, output, keyVars, fetchVars, scoreVars>>

\* return of fetch_crypto_news and the 200 response of search()
Respond(all) ==
  /\ output' = SortAndTruncate(all)
  /\ status' = 200
  /\ pc' = "done"

\* the except branch of search(): 500 with an empty search_results
Fail ==
  /\ output' = <<>>
  /\ status' = 500
  /\ pc' = "error"

CallCoingecko ==
  /\ pc = "coingecko"
  /\ \E response \in Responses(MaxCoins) :
       LET o == fetch_from_coingecko(query, response)
       IN /\ results' = results \o o.results
          /\ ret' = [ret EXCEPT !["coingecko"] = o]
  /\ calls' = Append(calls, "coingecko")
  /\ pc' = IF CRYPTOPANIC_API_KEY THEN "cryptopanic" ELSE "prices"
  /\ UNCHANGED <<query, output, status, keyVars, fetchVars, scoreVars>>

CallCryptopanic ==
  /\ pc = "cryptopanic"
  /\ \E response \in Responses(MaxPosts) :
       LET o == fetch_from_cryptopanic(query, response)
       IN /\ results' = results \o o.results
          /\ ret' = [ret EXCEPT !["cryptopanic"] = o]
  /\ calls' = Append(calls, "cryptopanic")
  /\ pc' = "prices"
  /\ UNCHANGED <<query, output, status, keyVars, fetchVars, scoreVars>>

CallPrices ==
  /\ pc = "prices"
  /\ \E response \in Responses(MaxPrices) :
       LET o == fetch_crypto_prices(query, response)
       IN /\ ret' = [ret EXCEPT !["prices"] = o]
          /\ IF o.raised
             THEN UNCHANGED results /\ Fail
             ELSE /\ results' = results \o o.results
                  /\ IF NEWSAPI_KEY
                     THEN pc' = "newsapi" /\ UNCHANGED <<output, status>>
                     ELSE Respond(results \o o.results)
  /\ calls' = Append(calls, "prices")
  /\ UNCHANGED <<query, keyVars, fetchVars, scoreVars>>

CallNewsapi ==
  /\ pc = "newsapi"
  /\ \E response \in Responses(MaxArticles) :
       LET o == fetch_from_newsapi(query, response)
       IN /\ results' = results \o o.results
          /\ ret' = [ret EXCEPT !["newsapi"] = o]
          /\ Respond(results \o o.results)
  /\ calls' = Append(calls, "newsapi")
  /\ UNCHANGED <<query, keyVars, fetchVars, scoreVars>>

Next == Search \/ CallCoingecko \/ CallCryptopanic \/ CallPrices \/ CallNewsapi

Spec == Init /\ [][Next]_vars

\* ------------------------------------------------- one fetcher on its own
\* items of a list response: a title that is text, a title that is a
\* number, an item that cannot be read
ItemKinds == {Item(Str(T_Title1)), Item(Num), BadItem}

\* entries of a price response: readable or not
PriceKinds == {Item(None), BadItem}

AllSeqs(kinds, max) == UNION { [1..n -> kinds] : n \in 0..max }

AllResponses(kinds, max) ==
  { [status |-> "ok", items |-> s] : s \in AllSeqs(kinds, max) }
  \cup { [status |-> st, items |-> <<>>] : st \in {"http_error", "exception"} }

ResponsesOf(src) ==
  CASE src = "coingecko" -> AllResponses(ItemKinds, MaxCoins)
    [] src = "cryptopanic" -> AllResponses(ItemKinds, MaxPosts)
    [] src = "prices" -> AllResponses(PriceKinds, MaxPrices)
    [] src = "newsapi" -> AllResponses(ItemKinds, MaxArticles)

Fetch(src, q, response) ==
  CASE src = "coingecko" -> fetch_from_coingecko(q, response)
    [] src = "cryptopanic" -> fetch_from_cryptopanic(q, response)
    [] src = "prices" -> fetch_crypto_prices(q, response)
    [] src = "newsapi" -> fetch_from_newsapi(q, response)

InitFetch ==
  /\ IdleRequest /\ IdleScore
  /\ query \in Queries
  /\ CRYPTOPANIC_API_KEY = TRUE /\ NEWSAPI_KEY = TRUE
  /\ fetchSource \in SourceSet
  /\ fetchResponse \in ResponsesOf(fetchSource)
  /\ fetchOutcome = NotRun
  /\ fetchDone = FALSE

RunFetcher ==
  /\ ~fetchDone
  /\ fetchOutcome' = Fetch(fetchSource, query, fetchResponse)
  /\ fetchDone' = TRUE
  /\ UNCHANGED <<query, keyVars, requestVars, fetchSource, fetchResponse, scoreVars>>

NextFetch == RunFetcher

SpecFetch == InitFetch /\ [][NextFetch]_vars

\* ---------------------------------------------------- the scorer on its own
Words ==
  { <<>>, <<"a", "b">>, <<"a", "b", "c">>, <<"a", "b", "c", "d">>,
    <<"A", "b", "c", "d">>, <<"d", "c", "b", "a">> }

RECURSIVE Join(_)
\* the words of ws with one space between neighbours
Join(ws) ==
  IF Len(ws) = 0 THEN <<>>
  ELSE IF Len(ws) = 1 THEN ws[1]
  ELSE ws[1] \o <<" ">> \o Join(Tail(ws))

Texts(max) == { Join(ws) : ws \in UNION { [1..n -> Words] : n \in 1..max } }

InitScore ==
  /\ IdleRequest /\ IdleFetch
  /\ query = None
  /\ CRYPTOPANIC_API_KEY = TRUE /\ NEWSAPI_KEY = TRUE
  /\ scoreQuery \in {Str(t) : t \in Texts(MaxQueryWords)} \cup {None, Num}
  /\ scoreText \in {Str(t) : t \in Texts(MaxTextWords)} \cup {None, Num}
  /\ scoreResult = Raised
  /\ scoreDone = FALSE

RunScorer ==
  /\ ~scoreDone
  /\ scoreResult' = calculate_relevance_score(scoreQuery, scoreText)
  /\ scoreDone' = TRUE
  /\ UNCHANGED <<query, keyVars, requestVars, fetchVars, scoreQuery, scoreText>>

NextScore == RunScorer

SpecScore == InitScore /\ [][NextScore]_vars

\* ================================================================== claims
Min(a, b) == IF a < b THEN a ELSE b

ScoreEq(a, b) == a.num * b.den = b.num * a.den

\* position of a result in the concatenation the aggregator built
Pos(r) == CHOOSE i \in 1..Len(results) : results[i] = r

Kept == {output[i] : i \in 1..Len(output)}
Dropped == {results[i] : i \in 1..Len(results)} \ Kept

\* r comes before q in a stable descending order of the concatenation
Before(r, q) ==
  \/ ScoreGT(r.score, q.score)
  \/ ScoreEq(r.score, q.score) /\ Pos(r) < Pos(q)

\* the fetchers a request runs, given the configured keys
ExpectedCalls ==
  <<"coingecko">> \o (IF CRYPTOPANIC_API_KEY THEN <<"cryptopanic">> ELSE <<>>)
  \o <<"prices">> \o (IF NEWSAPI_KEY THEN <<"newsapi">> ELSE <<>>)

\* the results of the sources whose error branch did not run
NonFailed(src) == IF ret[src].failed THEN <<>> ELSE ret[src].results

\* C1: the list the aggregator returns, and so the search_results of a 200
\* response, never has more than 10 items, whatever the sources returned.
C1_AtMostTen == Len(output) <= 10

C1_Witness == pc = "done" /\ status = 200 /\ Len(results) > 10 /\ Len(output) = 10

\* C2: the returned list is sorted non-increasing by score: no element has
\* a score greater than the element before it.
C2_SortedNonIncreasing ==
  pc = "done" =>
    \A i \in 1..(Len(output) - 1) : ~ScoreGT(output[i + 1].score, output[i].score)

C2_Witness ==
  /\ pc = "done"
  /\ \E i \in 1..(Len(results) - 1) : ScoreGT(results[i + 1].score, results[i].score)
  /\ \E i \in 1..(Len(output) - 1) : ScoreGT(output[i].score, output[i + 1].score)

\* C3 (as claimed): for a string query the request completes with 200, every
\* fetcher the keys enable is called, and the output is the sorted, truncated
\* concatenation of the results of the sources that did not fail.
C3_OnlyNonFailedSourcesAppear ==
  (pc \in {"done", "error"} /\ calls # <<>> /\ query.kind = "str") =>
    /\ status = 200
    /\ calls = ExpectedCalls
    /\ output = SortAndTruncate(NonFailed("coingecko") \o NonFailed("cryptopanic")
                                \o NonFailed("prices") \o NonFailed("newsapi"))

\* C4: when the sources yield n results the aggregator returns min(10, n) of
\* them, and no dropped result has a score greater than a kept one.
C4_TopScored ==
  pc = "done" =>
    /\ Len(output) = Min(10, Len(results))
    /\ Cardinality(Kept) = Len(output)
    /\ Kept \subseteq {results[i] : i \in 1..Len(results)}
    /\ \A d \in Dropped : \A k \in Kept : ~ScoreGT(d.score, k.score)

C4_Witness ==
  /\ pc = "done"
  /\ Len(results) > 10
  /\ \E d \in Dropped : \E k \in Kept : ScoreGT(k.score, d.score)
  /\ \E d \in Dropped : \E k \in Kept : Pos(d) <= 10 /\ Pos(k) > 10

\* case-insensitive containment of sub in s
ContainsIgnoringCase(sub, s) ==
  \E off \in 0..(Len(s) - Len(sub)) :
    \A k \in 1..Len(sub) : LowerChar(sub[k]) = LowerChar(s[off + k])

ScoredText == scoreDone /\ scoreQuery.kind = "str" /\ scoreText.kind = "str"

\* C5 (as claimed): for every query and text, if the lowercased query is a
\* substring of the lowercased text the score is 0.95.
C5_SubstringGives095 ==
  (ScoredText /\ ContainsIgnoringCase(scoreQuery.s, scoreText.s)) =>
    scoreResult = Returned(Score(95, 100))

\* C5 (amended): for every non-empty query and every text, if the lowercased
\* query is a substring of the lowercased text the score is 0.95.
C5_NonEmptySubstringGives095 ==
  (ScoredText /\ scoreQuery.s # <<>>
     /\ ContainsIgnoringCase(scoreQuery.s, scoreText.s)) =>
    scoreResult = Returned(Score(95, 100))

C5_Witness ==
  /\ ScoredText /\ scoreQuery.s # <<>>
  /\ ContainsIgnoringCase(scoreQuery.s, scoreText.s)
  /\ ~Contains(scoreQuery.s, scoreText.s)
  /\ Len(scoreText.s) > Len(scoreQuery.s)

\* the words of s as <<first, last>> positions: maximal runs without a space
WordSpans(s) ==
  { w \in (1..Len(s)) \X (1..Len(s)) :
      /\ w[1] <= w[2]
      /\ \A k \in w[1]..w[2] : s[k] # " "
      /\ (w[1] = 1 \/ s[w[1] - 1] = " ")
      /\ (w[2] = Len(s) \/ s[w[2] + 1] = " ") }

LongSpans(s) == { w \in WordSpans(s) : w[2] - w[1] + 1 >= 4 }

PresentSpans(q, t) ==
  { w \in LongSpans(q) : ContainsIgnoringCase(SubSeq(q, w[1], w[2]), t) }

\* sc is the score the reference scorer gives to query q and text t
ReferenceScore(q, t, sc) ==
  IF q = <<>> \/ t = <<>> THEN sc.num * 2 = sc.den
  ELSE IF ContainsIgnoringCase(q, t) THEN sc.num * 100 = 95 * sc.den
  ELSE IF LongSpans(q) = {} THEN sc.num * 2 = sc.den
  ELSE sc.num * 10 * Cardinality(LongSpans(q))
       = (5 * Cardinality(LongSpans(q)) + 4 * Cardinality(PresentSpans(q, t)))
         * sc.den

\* C6: the score equals the reference scorer (0.5 for an empty query or text,
\* else 0.95 on containment, else 0.5 without long words, else
\* 0.5 + 0.4 * present / long words) and lies within [0, 1].
C6_MatchesReference ==
  ScoredText =>
    /\ ~scoreResult.raised
    /\ ReferenceScore(scoreQuery.s, scoreText.s, scoreResult.score)
    /\ scoreResult.score.den > 0
    /\ 0 <= scoreResult.score.num
    /\ scoreResult.score.num <= scoreResult.score.den

C6_Witness ==
  /\ ScoredText
  /\ Cardinality(LongSpans(scoreQuery.s)) = 2
  /\ Cardinality(PresentSpans(scoreQuery.s, scoreText.s)) = 1
  /\ scoreResult = Returned(Score(7, 10))

\* C7 (as claimed): a fetcher whose outbound call ends in a non-success
\* status or in an exception, also one raised after some items were mapped,
\* returns an empty sequence and raises nothing.
C7_FailureReturnsEmpty ==
  (fetchDone /\ fetchOutcome.called /\ fetchOutcome.failed) =>
    /\ fetchOutcome.results = <<>>
    /\ ~fetchOutcome.raised

\* C8 (as claimed): whatever the provider's response holds, each fetcher
\* returns at most 5 results.
C8_AtMostFivePerSource == fetchDone => Len(fetchOutcome.results) <= 5

\* C8 (amended): the trending and NewsAPI fetchers return at most 3 results
\* and the CryptoPanic fetcher at most 5, whatever the length of the
\* response; the price fetcher has no prefix limit and returns one result for
\* every entry of its response up to the first unreadable one.
C8_PrefixPerSource ==
  fetchDone =>
    /\ Len(fetchOutcome.results) <= Len(fetchResponse.items)
    /\ (fetchSource = "coingecko" => Len(fetchOutcome.results) <= 3)
    /\ (fetchSource = "cryptopanic" => Len(fetchOutcome.results) <= 5)
    /\ (fetchSource = "newsapi" => Len(fetchOutcome.results) <= 3)
    /\ ((fetchSource = "prices" /\ query.kind = "str"
           /\ fetchResponse.status = "ok"
           /\ \A i \in 1..Len(fetchResponse.items) : fetchResponse.items[i].dict)
        => Len(fetchOutcome.results) = Len(fetchResponse.items))

C8_Witness ==
  /\ fetchDone
  /\ fetchSource = "cryptopanic"
  /\ Len(fetchResponse.items) > 5
  /\ Len(fetchOutcome.results) = 5

\* C9: the output is the first 10 elements of the stable descending sort of
\* the concatenation [trending, CryptoPanic, prices, NewsAPI]: among equal
\* scores the earlier result of the concatenation comes first, and at the
\* cut-off the earlier ones are kept.
C9_StableOrder ==
  pc = "done" =>
    /\ results = ret["coingecko"].results \o ret["cryptopanic"].results
                 \o ret["prices"].results \o ret["newsapi"].results
    /\ Len(output) = Min(10, Len(results))
    /\ Kept \subseteq {results[i] : i \in 1..Len(results)}
    /\ \A i, j \in 1..Len(output) : i < j => Before(output[i], output[j])
    /\ \A k \in Kept : \A d \in Dropped : Before(k, d)

C9_Witness ==
  /\ pc = "done"
  /\ Len(results) > 10
  /\ \E d \in Dropped : ScoreEq(d.score, output[10].score)
  /\ \E i, j \in 1..Len(output) :
       /\ i < j /\ ScoreEq(output[i].score, output[j].score)
       /\ output[i].src # output[j].src
  /\ \E i \in 1..Len(output) : Pos(output[i]) # i

\* C10 (as claimed): a request that reaches the aggregator runs the fetchers
\* once each in the order trending, CryptoPanic, prices, NewsAPI, an optional
\* one exactly when its key is set, and completes without error.
C10_EveryEnabledSourceRuns ==
  (pc \in {"done", "error"} /\ calls # <<>>) =>
    /\ calls = ExpectedCalls
    /\ status = 200

====
